---- MODULE Spec2Model ----
(***************************************************************************)
(* A model of the chunked, resumable Google Scholar scraper.               *)
(*   src/v1/scrape_scholar.py     the library variant ("v1")               *)
(*   src/scholar_scraper_bs4.py   the browser variant ("bs4")              *)
(* Text is a sequence of one-character strings.  A raw search result is    *)
(* identified by its kind (an index into the catalogue Raw); a paper is    *)
(* the pair of its number and the kind of the raw record it was built      *)
(* from, the remaining fields of the paper being copies of that record.    *)
(***************************************************************************)
EXTENDS Integers, Sequences, FiniteSets, TLC

(***************************************************************************)
(* Bounds of the model.                                                    *)
(***************************************************************************)
MaxStream == 3
MaxChunk == 2
MaxResults == 3
MaxRuns == 2
MaxRepeats == 3

\* The header row of the CSV, in the shape of a data row.
HeaderRow == [number |-> 0, kind |-> 0, rank |-> 0]

Min(a, b) == IF a <= b THEN a ELSE b
Max(a, b) == IF a >= b THEN a ELSE b

(***************************************************************************)
(* Text.                                                                   *)
(***************************************************************************)
Lower(c) ==
    CASE c = "I" -> "i"
      [] c = "T" -> "t"
      [] c = "A" -> "a"
      [] c = "R" -> "r"
      [] c = "U" -> "u"
      [] c = "B" -> "b"
      [] OTHER -> c

LowerText(t) == [i \in 1..Len(t) |-> Lower(t[i])]

\* Python's `sub in text`: sub occurs in text as a contiguous run.
Contains(sub, text) ==
    \E i \in 0..(Len(text) - Len(sub)) : SubSeq(text, i + 1, i + Len(sub)) = sub

EndsWithStar(kw) == Len(kw) > 0 /\ kw[Len(kw)] = "*"

RECURSIVE MatchFrom(_, _, _)
MatchFrom(text_lower, keywords, i) ==
    IF i > Len(keywords) THEN FALSE
    ELSE LET kw == keywords[i] IN
         IF EndsWithStar(kw)
         THEN IF Contains(LowerText(SubSeq(kw, 1, Len(kw) - 1)), text_lower)
              THEN TRUE
              ELSE MatchFrom(text_lower, keywords, i + 1)
         ELSE IF Contains(LowerText(kw), text_lower)
              THEN TRUE
              ELSE MatchFrom(text_lower, keywords, i + 1)

\* _matches_keywords comparing the text as it is, not lowered.
_matches_keywords_CaseSensitive(text, keywords) ==
    IF text = <<>> THEN FALSE
    ELSE MatchFrom(text, keywords, 1)

_matches_keywords(text, keywords) ==
    IF text = <<>> THEN FALSE
    ELSE MatchFrom(LowerText(text), keywords, 1)

(***************************************************************************)
(* The query string, as the sequence of its pieces.                        *)
(***************************************************************************)
Quoted(kw) == <<"\"">> \o kw \o <<"\"">>

RECURSIVE JoinOr(_, _)
JoinOr(keywords, i) ==
    IF i > Len(keywords) THEN <<>>
    ELSE IF i = Len(keywords) THEN Quoted(keywords[i])
    ELSE Quoted(keywords[i]) \o <<" OR ">> \o JoinOr(keywords, i + 1)

build_query(ita_keywords, assessment_keywords) ==
    <<"(">> \o JoinOr(ita_keywords, 1) \o <<") AND (">>
        \o JoinOr(assessment_keywords, 1) \o <<") -Italian -lingua">>

(***************************************************************************)
(* The keyword lists a user can configure, and the raw records the         *)
(* search engine can return.                                               *)
(***************************************************************************)
ItaA == << <<"I", "T", "A">> >>
ItaB == << <<"I", "T", "A">>, <<"T", "A", "*">> >>
AssessA == << <<"r", "u", "b", "*">> >>
AssessB == << <<"R", "u", "b">> >>

KeywordConfigs ==
    { [ita |-> ItaA, assessment |-> AssessA],
      [ita |-> ItaB, assessment |-> AssessA] }

\* Kinds 1 and 2 match both keyword groups of every configuration.  Kind 3 has
\* no title; it matches the assessment group, and the ITA group only of ItaB.
Raw(k) ==
    CASE k = 1 -> [has_title |-> TRUE, title |-> <<"I", "T", "A">>,
                   abstract |-> <<"r", "u", "b">>]
      [] k = 2 -> [has_title |-> TRUE, title |-> <<"i", "t", "a", " ", "R", "u", "b">>,
                   abstract |-> <<>>]
      [] OTHER -> [has_title |-> FALSE, title |-> <<>>,
                   abstract |-> <<"T", "A", " ", "r", "u", "b">>]

RECURSIVE SeqsUpTo(_, _)
SeqsUpTo(S, n) ==
    IF n = 0 THEN {<<>>}
    ELSE LET shorter == SeqsUpTo(S, n - 1) IN
         shorter \cup {Append(s, x) : s \in {t \in shorter : Len(t) = n - 1}, x \in S}

\* The result streams of the runs: records that pass the filter and records
\* that do not, in every order.
StreamKinds == {1, 3}
Streams == SeqsUpTo(StreamKinds, MaxStream)

(***************************************************************************)
(* Files.  A path holds no file ("absent"), a file that does not parse     *)
(* ("corrupt", data empty) or a file with data ("ok").                     *)
(***************************************************************************)
Paths == {"checkpoint", "csv", "json", "report"}

\* The keys of a checkpoint.  chunk_size, max_results and last_updated are
\* written too, and read by nothing: they are left out.
AllKeys == {"query", "ita_keywords", "assessment_keywords", "next_index", "completed"}

\* A dict with no key; also stands for Python's None where `loaded` tells.
EmptyDict ==
    [keys |-> {}, query |-> <<>>, ita_keywords |-> <<>>, assessment_keywords |-> <<>>,
     next_index |-> 0, completed |-> FALSE]

AbsentFile == [state |-> "absent", data |-> <<>>]
CorruptFile == [state |-> "corrupt", data |-> <<>>]
TextFile(rows) == [state |-> "ok", data |-> rows]

AbsentCheckpoint == [state |-> "absent", data |-> EmptyDict]
CorruptCheckpoint == [state |-> "corrupt", data |-> EmptyDict]

Exists(file) == file.state # "absent"

VARIABLES
    variant,              \* which script the user runs: "v1" or "bs4"
    ITA_KEYWORDS,         \* module-level configuration, editable between runs
    ASSESSMENT_KEYWORDS,
    stream,               \* the ordered result stream the search engine delivers
    ckptFile,             \* checkpoint.json
    jsonFile,             \* scholar_results.json: the papers array
    csvFile,              \* scholar_results.csv: header and data rows
    reportFile,           \* scholar_report.txt: the papers rendered
    rotated,              \* files renamed to <stem>.old-<timestamp><suffix>
    runs,                 \* number of invocations so far; also the clock
    interrupted,          \* history: a run was killed between its call of
                          \* append_to_csv and the end of save_checkpoint
    run                   \* per process: the locals of main and fetch_chunk

vars == <<variant, ITA_KEYWORDS, ASSESSMENT_KEYWORDS, stream, ckptFile, jsonFile,
          csvFile, reportFile, rotated, runs, interrupted, run>>

disk == <<ckptFile, jsonFile, csvFile, reportFile>>
config == <<variant, ITA_KEYWORDS, ASSESSMENT_KEYWORDS>>

Procs == {1, 2}

NoArgs ==
    [chunk_size |-> 0, max_results |-> 0, min_delay |-> 0, max_delay |-> 0,
     reset |-> FALSE]

IdleRun ==
    [pc |-> "idle", exit |-> "none", args |-> NoArgs, query |-> <<>>,
     log |-> {}, loaded |-> FALSE, checkpoint |-> EmptyDict, resume |-> FALSE,
     existing_papers |-> <<>>, start_index |-> 1, chunk_size |-> 0, end_index |-> 0,
     opened |-> FALSE, idx |-> 0, current_number |-> 0, fetched |-> 0, signal |-> "none",
     papers |-> <<>>, last_index |-> 0, reached_end |-> FALSE, sleeps |-> {},
     captcha |-> FALSE, elapsed |-> 0, text |-> <<>>, matched |-> FALSE,
     overlap |-> FALSE]

\* The process ends: what it printed, what it asked of the search engine and
\* what it had collected remain to be seen; its other locals are gone.
Exit(r, code) ==
    [IdleRun EXCEPT !.exit = code, !.args = r.args, !.query = r.query, !.log = r.log,
                    !.overlap = r.overlap,
                    !.resume = r.resume, !.start_index = r.start_index,
                    !.opened = r.opened, !.fetched = r.fetched, !.signal = r.signal,
                    !.papers = r.papers]

(***************************************************************************)
(* Command lines.  --test caps both sizes at 10.                           *)
(***************************************************************************)
Cli(chunk_size, max_results, min_delay, max_delay, reset, test) ==
    [chunk_size |-> chunk_size, max_results |-> max_results,
     delay |-> <<min_delay, max_delay>>, reset |-> reset, test |-> test]

\* Command lines main accepts, and some it rejects.
GoodCli ==
    {Cli(c, m, 0, d, reset, FALSE) :
        c \in 1..MaxChunk, m \in 1..MaxResults, d \in {1}, reset \in BOOLEAN}
    \cup {Cli(MaxChunk, MaxResults, 0, 1, FALSE, TRUE)}

BadCli ==
    {Cli(0, MaxResults, 0, 1, FALSE, FALSE), Cli(MaxChunk, 0, 0, 1, TRUE, FALSE),
     Cli(MaxChunk, MaxResults, 0 - 1, 1, TRUE, FALSE),
     Cli(MaxChunk, MaxResults, 1, 0, FALSE, FALSE)}

CliArgs == GoodCli \cup BadCli

ValidArgs(a) ==
    /\ ~(a.chunk_size <= 0)
    /\ ~(a.max_results <= 0)
    /\ ~(a.delay[1] < 0 \/ a.delay[2] < 0)
    /\ ~(a.delay[1] > a.delay[2])

TestMode(a) ==
    IF a.test
    THEN [a EXCEPT !.max_results = Min(a.max_results, 10),
                   !.chunk_size = Min(a.chunk_size, 10)]
    ELSE a

StoredArgs(a) ==
    [chunk_size |-> a.chunk_size, max_results |-> a.max_results,
     min_delay |-> a.delay[1], max_delay |-> a.delay[2], reset |-> a.reset]

(***************************************************************************)
(* Checkpoint store.                                                       *)
(***************************************************************************)
\* load_checkpoint: the parsed dict, or None (loaded = FALSE) when the file is
\* missing or does not parse.
load_checkpoint(file) ==
    IF file.state = "ok"
    THEN [loaded |-> TRUE, checkpoint |-> file.data]
    ELSE [loaded |-> FALSE, checkpoint |-> EmptyDict]

\* is_checkpoint_compatible with the ITA list compared against the assessment
\* list.
is_checkpoint_compatible_Swapped(loaded, checkpoint, query, ita, assessment) ==
    IF ~loaded THEN FALSE
    ELSE IF ~("query" \in checkpoint.keys /\ checkpoint.query = query) THEN FALSE
    ELSE IF \/ ~("ita_keywords" \in checkpoint.keys
                 /\ checkpoint.ita_keywords = assessment)
            \/ ~("assessment_keywords" \in checkpoint.keys
                 /\ checkpoint.assessment_keywords = assessment)
         THEN FALSE
    ELSE TRUE

\* is_checkpoint_compatible without the comparison of the assessment list.
is_checkpoint_compatible_NoAssessment(loaded, checkpoint, query, ita, assessment) ==
    IF ~loaded THEN FALSE
    ELSE IF ~("query" \in checkpoint.keys /\ checkpoint.query = query) THEN FALSE
    ELSE IF ~("ita_keywords" \in checkpoint.keys /\ checkpoint.ita_keywords = ita)
         THEN FALSE
    ELSE TRUE

is_checkpoint_compatible(loaded, checkpoint, query, ita, assessment) ==
    IF ~loaded THEN FALSE
    ELSE IF ~("query" \in checkpoint.keys /\ checkpoint.query = query) THEN FALSE
    ELSE IF \/ ~("ita_keywords" \in checkpoint.keys /\ checkpoint.ita_keywords = ita)
            \/ ~("assessment_keywords" \in checkpoint.keys
                 /\ checkpoint.assessment_keywords = assessment)
         THEN FALSE
    ELSE TRUE

\* Python's truth value of the loaded checkpoint: None and {} are false.
Truthy(loaded, checkpoint) == loaded /\ checkpoint.keys # {}

\* A reader that never finds earlier results.
read_json_results_Nothing(file) == <<>>

\* read_json_results: the papers array, or [] when missing or unreadable.
read_json_results(file) == IF file.state = "ok" THEN file.data ELSE <<>>

\* rotate_path: the entry the rename adds to the directory, if the path exists.
Rotation(path, file, clock) ==
    IF Exists(file) THEN {[path |-> path, stamp |-> clock, file |-> file]} ELSE {}

(***************************************************************************)
(* Papers.                                                                 *)
(***************************************************************************)
\* number: the paper's "number"; kind and rank: the raw record its other fields
\* were copied from, by content and by place in the result ordering.
Paper(number, kind, rank) == [number |-> number, kind |-> kind, rank |-> rank]

Numbers(papers) == {papers[i].number : i \in 1..Len(papers)}

\* sorted(..., key=number) of a collection with one paper per number.
RECURSIVE SortedFrom(_, _)
SortedFrom(map, keys) ==
    IF keys = {} THEN <<>>
    ELSE LET least == CHOOSE n \in keys : \A m \in keys : n <= m IN
         <<map[least]>> \o SortedFrom(map, keys \ {least})

\* {paper["number"]: paper for paper in papers}: a later paper replaces an
\* earlier one with the same number.
RECURSIVE Overlay(_, _, _)
Overlay(map, papers, i) ==
    IF i > Len(papers) THEN map
    ELSE LET paper == papers[i] IN
         Overlay([n \in (DOMAIN map) \cup {paper.number} |->
                     IF n = paper.number THEN paper ELSE map[n]],
                 papers, i + 1)

EmptyMap == [n \in {} |-> Paper(0, 0, 0)]

\* Combine with the previous record winning on a number both lists hold.
Combine_OldWins(existing_papers, new_papers) ==
    LET combined_map == Overlay(Overlay(EmptyMap, new_papers, 1), existing_papers, 1)
    IN SortedFrom(combined_map, DOMAIN combined_map)

\* Combine by list concatenation instead of by number.
Combine_Concatenated(existing_papers, new_papers) == existing_papers \o new_papers

Combine(existing_papers, new_papers) ==
    LET combined_map == Overlay(Overlay(EmptyMap, existing_papers, 1), new_papers, 1)
    IN SortedFrom(combined_map, DOMAIN combined_map)

\* The client-side filter of fetch_chunk: the record must match both groups.
Accepts(raw, ita, assessment) ==
    LET title == IF raw.has_title THEN raw.title ELSE <<>>
        abstract == raw.abstract
        has_ita == _matches_keywords(title \o <<" ">> \o abstract, ita)
        has_assessment == _matches_keywords(title \o <<" ">> \o abstract, assessment)
    IN has_ita /\ has_assessment

\* append_to_csv: nothing for no papers; the header when the file is absent
\* or empty; then one row per paper.
append_to_csv(papers, file) ==
    IF papers = <<>> THEN file
    ELSE LET should_write_header == ~Exists(file) \/ file.data = <<>>
             old == IF Exists(file) THEN file.data ELSE <<>>
         IN TextFile(old \o (IF should_write_header THEN <<HeaderRow>> ELSE <<>>)
                         \o papers)

\* generate_report: the papers sorted by number.
generate_report(papers) ==
    TextFile(SortedFrom([i \in 1..Len(papers) |-> papers[i]], 1..Len(papers)))

FileAt(path) ==
    CASE path = "checkpoint" -> ckptFile
      [] path = "csv" -> csvFile
      [] path = "json" -> jsonFile
      [] OTHER -> reportFile

ExistingPaths == {path \in Paths : Exists(FileAt(path))}

\* clear_outputs((CHECKPOINT_PATH, CSV_PATH, JSON_PATH, REPORT_PATH)): the four
\* files <<checkpoint, json, csv, report>> afterwards.
\* clear_outputs called without JSON_PATH.
clear_outputs_KeepsJson(files) == <<AbsentCheckpoint, files[2], AbsentFile, AbsentFile>>

clear_outputs(files) == <<AbsentCheckpoint, AbsentFile, AbsentFile, AbsentFile>>

(***************************************************************************)
(* Initial state: a directory with no file of the scraper.                 *)
(***************************************************************************)
Init ==
    /\ variant \in {"v1", "bs4"}
    /\ \E c \in KeywordConfigs :
          ITA_KEYWORDS = c.ita /\ ASSESSMENT_KEYWORDS = c.assessment
    /\ stream \in Streams
    /\ ckptFile = AbsentCheckpoint
    /\ jsonFile = AbsentFile
    /\ csvFile = AbsentFile
    /\ reportFile = AbsentFile
    /\ rotated = {}
    /\ runs = 0
    /\ interrupted = FALSE
    /\ run = [p \in Procs |-> IdleRun]

Idle(p) == run[p].pc = "idle"

\* The run r has begun (and may have ended).
Begun(r) == r.pc # "idle" \/ r.exit # "none"

(***************************************************************************)
(* v1 main, lines 389-417: arguments, validation, --test, --reset.         *)
(***************************************************************************)
Begin(p) ==
    /\ variant = "v1"
    /\ Idle(p)
    /\ runs' = runs + 1
    /\ \E cli \in CliArgs :
          IF ~ValidArgs(cli)
          THEN /\ run' = [run EXCEPT ![p] = [IdleRun EXCEPT !.exit = "bad_args"]]
               /\ UNCHANGED disk
          ELSE LET a == TestMode(cli) IN
               /\ run' = [run EXCEPT ![p] =
                            [IdleRun EXCEPT
                               !.pc = "load",
                               !.overlap = \E q \in Procs : ~Idle(q),
                               !.args = StoredArgs(a),
                               !.query = build_query(ITA_KEYWORDS, ASSESSMENT_KEYWORDS),
                               !.log = IF a.reset
                                       THEN {<<"removed", path>> : path \in ExistingPaths}
                                       ELSE {}]]
               /\ IF a.reset
                  THEN LET cleared == clear_outputs(disk) IN
                       /\ ckptFile' = cleared[1]
                       /\ jsonFile' = cleared[2]
                       /\ csvFile' = cleared[3]
                       /\ reportFile' = cleared[4]
                  ELSE UNCHANGED disk
    /\ UNCHANGED <<config, stream, rotated, interrupted>>

\* The user starts the script, a bounded number of times.
StartRun(p) == runs < MaxRuns /\ Begin(p)

(***************************************************************************)
(* v1 main, line 419: load the checkpoint.                                 *)
(***************************************************************************)
LoadCheckpoint(p) ==
    /\ variant = "v1"
    /\ run[p].pc = "load"
    /\ LET got == load_checkpoint(ckptFile) IN
       run' = [run EXCEPT ![p].pc = "compat",
                          ![p].loaded = got.loaded,
                          ![p].checkpoint = got.checkpoint]
    /\ UNCHANGED <<config, stream, disk, rotated, runs, interrupted>>

(***************************************************************************)
(* v1 main, lines 420-431: decide whether to resume; if not, and a         *)
(* checkpoint was loaded, rotate the outputs.  `checkpoint.unlink()` is    *)
(* called on the dict, raises AttributeError, which is swallowed: the      *)
(* checkpoint file stays where it is.                                      *)
(***************************************************************************)
CheckCompat(p) ==
    /\ variant = "v1"
    /\ run[p].pc = "compat"
    /\ LET resume == is_checkpoint_compatible(run[p].loaded, run[p].checkpoint,
                         run[p].query, ITA_KEYWORDS, ASSESSMENT_KEYWORDS)
       IN IF ~resume /\ Truthy(run[p].loaded, run[p].checkpoint)
          THEN /\ rotated' = rotated \cup Rotation("json", jsonFile, runs)
                                     \cup Rotation("csv", csvFile, runs)
                                     \cup Rotation("report", reportFile, runs)
               /\ jsonFile' = AbsentFile
               /\ csvFile' = AbsentFile
               /\ reportFile' = AbsentFile
               /\ UNCHANGED ckptFile
               /\ run' = [run EXCEPT ![p].pc = "resume",
                                     ![p].resume = resume,
                                     ![p].log = @ \cup
                                        {<<"rotated", path>> :
                                            path \in ExistingPaths \ {"checkpoint"}},
                                     ![p].loaded = FALSE,
                                     ![p].checkpoint = EmptyDict]
          ELSE /\ run' = [run EXCEPT ![p].pc = "resume", ![p].resume = resume]
               /\ UNCHANGED <<disk, rotated>>
    /\ UNCHANGED <<config, stream, runs, interrupted>>

\* checkpoint.get("next_index", 1)
NextIndexOf(checkpoint) ==
    IF "next_index" \in checkpoint.keys THEN checkpoint.next_index ELSE 1

(***************************************************************************)
(* v1 main, lines 433-457: previous papers, start index, the range.        *)
(***************************************************************************)
Resume(p) ==
    /\ variant = "v1"
    /\ run[p].pc = "resume"
    /\ LET existing_papers == IF run[p].resume THEN read_json_results(jsonFile) ELSE <<>>
           start_index == IF run[p].resume
                          THEN Max(1, NextIndexOf(run[p].checkpoint))
                          ELSE 1
           remaining == run[p].args.max_results - (start_index - 1)
           chunk_size == Min(run[p].args.chunk_size, remaining)
           target_end_index == start_index + chunk_size - 1
       IN IF start_index > run[p].args.max_results
          THEN run' = [run EXCEPT ![p] =
                          Exit([run[p] EXCEPT !.start_index = start_index],
                               "limit_reached")]
          ELSE IF remaining <= 0
          THEN run' = [run EXCEPT ![p] =
                          Exit([run[p] EXCEPT !.start_index = start_index],
                               "no_remaining")]
          ELSE run' = [run EXCEPT ![p].pc = "open",
                                  ![p].existing_papers = existing_papers,
                                  ![p].start_index = start_index,
                                  ![p].chunk_size = chunk_size,
                                  ![p].end_index = target_end_index]
    /\ UNCHANGED <<config, stream, disk, rotated, runs, interrupted>>

\* Lines 320-321: the empty range.
EmptyRange(r) ==
    [r EXCEPT !.pc = "merge",
              !.papers = <<>>,
              !.last_index = r.start_index - 1,
              !.reached_end = FALSE]

\* OnMaxTries catching the exception and returning what was collected.
OnMaxTries_Swallowed(r) ==
    [r EXCEPT !.pc = "merge", !.signal = "MaxTriesExceeded", !.reached_end = TRUE]

\* Lines 325-330 and 339-344: MaxTriesExceededException is raised again; main
\* does not catch it and the process ends.
OnMaxTries(r) == Exit([r EXCEPT !.signal = "MaxTriesExceeded"], "rate_limit")

\* Lines 324 and 332-334: the iterator and the locals of the loop.
Opened(r) ==
    [r EXCEPT !.pc = "loop",
              !.opened = TRUE,
              !.idx = 1,
              !.papers = <<>>,
              !.reached_end = FALSE,
              !.last_index = r.start_index - 1]

(***************************************************************************)
(* v1 fetch_chunk, lines 320-334: the empty range, opening the stream.     *)
(* The upstream client either hands out the iterator or raises             *)
(* MaxTriesExceededException, which fetch_chunk raises again and main      *)
(* does not catch.                                                         *)
(***************************************************************************)
OpenStream(p) ==
    /\ variant = "v1"
    /\ run[p].pc = "open"
    /\ IF run[p].start_index > run[p].end_index
       THEN run' = [run EXCEPT ![p] = EmptyRange(run[p])]
       ELSE \E throttled \in BOOLEAN :
              IF throttled
              THEN run' = [run EXCEPT ![p] = OnMaxTries(run[p])]
              ELSE run' = [run EXCEPT ![p] = Opened(run[p])]
    /\ UNCHANGED <<config, stream, disk, rotated, runs, interrupted>>

\* throttle_between_requests: whether a sleep takes place.
throttle_between_requests(max_delay) == ~(max_delay <= 0)

\* Lines 383-384 and the loop header: the pause, and the next position or the
\* return.
Advance(r, idx, pause) ==
    [r EXCEPT !.pc = IF idx = r.end_index THEN "merge" ELSE "loop",
              !.idx = idx + 1,
              !.fetched = r.fetched + 1,
              !.sleeps = IF pause /\ idx < r.end_index
                            /\ throttle_between_requests(r.args.max_delay)
                         THEN r.sleeps \cup {idx}
                         ELSE r.sleeps]

\* OnStopIteration without reached_end = True: the exhaustion is not reported.
OnStopIteration_NotReported(r, idx) ==
    [r EXCEPT !.pc = "merge",
              !.signal = "StopIteration",
              !.last_index = idx - 1]

\* OnStopIteration with last_index = idx: the position that failed is counted.
OnStopIteration_CountsFailed(r, idx) ==
    [r EXCEPT !.pc = "merge",
              !.signal = "StopIteration",
              !.reached_end = TRUE,
              !.last_index = idx]

\* Lines 345-348: the stream is exhausted at position idx.
OnStopIteration(r, idx) ==
    [r EXCEPT !.pc = "merge",
              !.signal = "StopIteration",
              !.reached_end = TRUE,
              !.last_index = idx - 1]

\* Lines 350-352: a position before the range.
OnSkip(r, idx) == Advance([r EXCEPT !.last_index = idx], idx, FALSE)

\* Lines 363-365: the record fails a keyword group.
OnReject(r, idx) == Advance(r, idx, FALSE)

\* Lines 367-384: the record is accepted.
OnAccept(r, idx, kind) ==
    Advance([r EXCEPT !.papers = Append(r.papers, Paper(idx, kind, idx)),
                      !.last_index = idx],
            idx, TRUE)

(***************************************************************************)
(* v1 fetch_chunk, lines 336-386: one iteration of the loop, at run[p].idx.*)
(***************************************************************************)
FetchNext(p) ==
    /\ variant = "v1"
    /\ run[p].pc = "loop"
    /\ LET idx == run[p].idx IN
       \E throttled \in BOOLEAN :
          IF throttled
          THEN run' = [run EXCEPT ![p] = OnMaxTries(run[p])]
          ELSE IF idx > Len(stream)
          THEN run' = [run EXCEPT ![p] = OnStopIteration(run[p], idx)]
          ELSE IF idx < run[p].start_index
          THEN run' = [run EXCEPT ![p] = OnSkip(run[p], idx)]
          ELSE IF ~Accepts(Raw(stream[idx]), ITA_KEYWORDS, ASSESSMENT_KEYWORDS)
          THEN run' = [run EXCEPT ![p] = OnReject(run[p], idx)]
          ELSE run' = [run EXCEPT ![p] = OnAccept(run[p], idx, stream[idx])]
    /\ UNCHANGED <<config, stream, disk, rotated, runs, interrupted>>

(***************************************************************************)
(* main, v1 lines 467-472 (bs4 lines 530-535): merge and save the JSON.    *)
(***************************************************************************)
SaveJson(p) ==
    /\ run[p].pc = "merge"
    /\ jsonFile' = TextFile(Combine(run[p].existing_papers, run[p].papers))
    /\ run' = [run EXCEPT ![p].pc = "csv", ![p].log = @ \cup {<<"saved", "json">>}]
    /\ UNCHANGED <<config, stream, ckptFile, csvFile, reportFile, rotated, runs, interrupted>>

(***************************************************************************)
(* main, v1 line 473 (bs4 line 536): append the new papers to the CSV.     *)
(***************************************************************************)
AppendCsv(p) ==
    /\ run[p].pc = "csv"
    /\ csvFile' = append_to_csv(run[p].papers, csvFile)
    /\ run' = [run EXCEPT ![p].pc = "report",
                          ![p].log = IF run[p].papers = <<>>
                                     THEN @ ELSE @ \cup {<<"saved", "csv">>}]
    /\ UNCHANGED <<config, stream, ckptFile, jsonFile, reportFile, rotated, runs, interrupted>>

(***************************************************************************)
(* main, v1 line 474 (bs4 line 537): write the report of the merged set.   *)
(***************************************************************************)
GenerateReport(p) ==
    /\ run[p].pc = "report"
    /\ reportFile' = generate_report(Combine(run[p].existing_papers, run[p].papers))
    /\ run' = [run EXCEPT ![p].pc = "checkpoint",
                          ![p].log = @ \cup {<<"saved", "report">>}]
    /\ UNCHANGED <<config, stream, ckptFile, jsonFile, csvFile, rotated, runs, interrupted>>

\* NextIndexV1 resuming at the last index reached instead of after it.
NextIndexV1_AtLast(start_index, last_index) ==
    IF last_index >= start_index THEN last_index ELSE start_index

\* A run that accepted nothing falls back to index 1.
NextIndexV1_Restart(start_index, last_index) ==
    IF last_index >= start_index THEN last_index + 1 ELSE 1

\* v1 lines 476-478.
NextIndexV1(start_index, last_index) ==
    IF last_index >= start_index THEN last_index + 1 ELSE start_index

\* bs4 line 540.
NextIndexBs4(start_index, new_papers) == start_index + Len(new_papers)

CheckpointPayload(r, ita, assessment, next_index) ==
    [keys |-> AllKeys,
     query |-> r.query,
     ita_keywords |-> ita,
     assessment_keywords |-> assessment,
     next_index |-> next_index,
     completed |-> (r.reached_end \/ next_index > r.args.max_results)]

(***************************************************************************)
(* main, v1 lines 476-492 (bs4 lines 540-551): save the checkpoint.  The   *)
(* last_updated timestamp is left out: nothing reads it.                   *)
(***************************************************************************)
SaveCheckpoint(p) ==
    /\ run[p].pc = "checkpoint"
    /\ LET next_index == IF variant = "v1"
                         THEN NextIndexV1(run[p].start_index, run[p].last_index)
                         ELSE NextIndexBs4(run[p].start_index, run[p].papers)
       IN ckptFile' = [state |-> "ok",
                       data |-> CheckpointPayload(run[p], ITA_KEYWORDS,
                                                  ASSESSMENT_KEYWORDS, next_index)]
    /\ run' = [run EXCEPT ![p] =
                  Exit([run[p] EXCEPT !.log = @ \cup {<<"saved", "checkpoint">>}], "ok")]
    /\ UNCHANGED <<config, stream, jsonFile, csvFile, reportFile, rotated, runs, interrupted>>

(***************************************************************************)
(* The process is killed (an interrupt, an I/O error on a write).  A file  *)
(* opened with mode "w" is truncated first: killed inside save_json_results*)
(* or save_checkpoint, the run can leave that file unparsable ("torn").    *)
(***************************************************************************)
Crash(p) ==
    /\ ~Idle(p)
    /\ \E torn \in BOOLEAN :
          /\ run' = [run EXCEPT ![p] =
                       Exit(run[p], IF torn /\ run[p].pc \in {"merge", "checkpoint"}
                                    THEN "torn" ELSE "crash")]
          /\ jsonFile' = IF torn /\ run[p].pc = "merge" THEN CorruptFile ELSE jsonFile
          /\ ckptFile' = IF torn /\ run[p].pc = "checkpoint"
                         THEN CorruptCheckpoint ELSE ckptFile
    /\ interrupted' = (interrupted \/ run[p].pc \in {"report", "checkpoint"})
    /\ UNCHANGED <<config, stream, csvFile, reportFile, rotated, runs>>

(***************************************************************************)
(* The environment between runs: the user edits the keyword lists.         *)
(***************************************************************************)
EditKeywords ==
    /\ \A p \in Procs : Idle(p)
    /\ runs < MaxRuns
    /\ \E c \in KeywordConfigs :
          /\ <<c.ita, c.assessment>> # <<ITA_KEYWORDS, ASSESSMENT_KEYWORDS>>
          /\ ITA_KEYWORDS' = c.ita
          /\ ASSESSMENT_KEYWORDS' = c.assessment
    /\ UNCHANGED <<variant, stream, disk, rotated, runs, interrupted, run>>

(***************************************************************************)
(* bs4 main, lines 474-499: arguments (none is validated), --test, --reset.*)
(***************************************************************************)
B_Begin(p) ==
    /\ variant = "bs4"
    /\ Idle(p)
    /\ runs' = runs + 1
    /\ \E cli \in CliArgs :
          LET a == TestMode(cli) IN
          /\ run' = [run EXCEPT ![p] =
                       [IdleRun EXCEPT
                          !.pc = "b_load",
                          !.overlap = \E q \in Procs : ~Idle(q),
                          !.args = StoredArgs(a),
                          !.query = build_query(ITA_KEYWORDS, ASSESSMENT_KEYWORDS),
                          !.log = IF a.reset
                                  THEN {<<"removed", path>> : path \in ExistingPaths}
                                  ELSE {}]]
          /\ IF a.reset
             THEN LET cleared == clear_outputs(disk) IN
                  /\ ckptFile' = cleared[1]
                  /\ jsonFile' = cleared[2]
                  /\ csvFile' = cleared[3]
                  /\ reportFile' = cleared[4]
             ELSE UNCHANGED disk
    /\ UNCHANGED <<config, stream, rotated, interrupted>>

\* The user starts the browser script, a bounded number of times.
B_StartRun(p) == runs < MaxRuns /\ B_Begin(p)

\* EnterFetchChunk called with args.chunk_size, not with the capped size.
EnterFetchChunk_Uncapped(r, start_index, chunk_size) ==
    [r EXCEPT !.pc = "b_loop",
              !.chunk_size = r.args.chunk_size,
              !.opened = TRUE,
              !.idx = 0,
              !.current_number = start_index,
              !.papers = <<>>,
              !.reached_end = FALSE]

\* bs4 fetch_chunk, lines 412-417: the call and the locals of the page loop.
EnterFetchChunk(r, start_index, chunk_size) ==
    [r EXCEPT !.pc = "b_loop",
              !.chunk_size = chunk_size,
              !.opened = TRUE,
              !.idx = 0,
              !.current_number = start_index,
              !.papers = <<>>,
              !.reached_end = FALSE]

(***************************************************************************)
(* bs4 main, lines 501-520: checkpoint, previous papers, start index, the  *)
(* size of the chunk.  The checkpoint counts when its query is the active  *)
(* one; the keyword lists are not compared and no file is rotated.         *)
(***************************************************************************)
B_Load(p) ==
    /\ variant = "bs4"
    /\ run[p].pc = "b_load"
    /\ LET got == load_checkpoint(ckptFile)
           existing_papers == read_json_results(jsonFile)
           resume == /\ Truthy(got.loaded, got.checkpoint)
                     /\ "query" \in got.checkpoint.keys
                     /\ got.checkpoint.query = run[p].query
           start_index == IF resume THEN NextIndexOf(got.checkpoint) ELSE 1
           r == [run[p] EXCEPT !.loaded = got.loaded,
                               !.checkpoint = got.checkpoint,
                               !.resume = resume,
                               !.existing_papers = existing_papers,
                               !.start_index = start_index]
       IN IF start_index > run[p].args.max_results
          THEN run' = [run EXCEPT ![p] = Exit(r, "limit_reached")]
          ELSE run' = [run EXCEPT ![p] =
                          EnterFetchChunk(r, start_index,
                                          Min(r.args.chunk_size,
                                              r.args.max_results - start_index + 1))]
    /\ UNCHANGED <<config, stream, disk, rotated, runs, interrupted>>

results_per_page == 10

\* The results on the page that starts after `offset` results.
PageAt(offset) ==
    [i \in 1..Max(0, Min(results_per_page, Len(stream) - offset)) |->
        [kind |-> stream[offset + i], rank |-> offset + i]]

\* bs4 fetch_chunk, lines 450-463: the results of one page, in order.  A
\* result without a title element does not parse and is skipped.
RECURSIVE ParseResults(_, _, _, _, _)
ParseResults(results, i, papers, current_number, chunk_size) ==
    IF i > Len(results) \/ Len(papers) >= chunk_size
    THEN [papers |-> papers, current_number |-> current_number]
    ELSE IF ~Raw(results[i].kind).has_title
    THEN ParseResults(results, i + 1, papers, current_number, chunk_size)
    ELSE ParseResults(results, i + 1,
                      Append(papers, Paper(current_number, results[i].kind,
                                           results[i].rank)),
                      current_number + 1, chunk_size)

\* bs4 fetch_chunk, lines 424-426: the page loop is over.
LoopOver(r) ==
    LET pages_needed == (r.chunk_size \div results_per_page) + 1
    IN r.idx >= pages_needed \/ Len(r.papers) >= r.chunk_size

\* bs4 fetch_chunk, lines 435-438: no page was obtained.
OnNoPage(r) == [r EXCEPT !.pc = "b_done", !.reached_end = TRUE]

\* bs4 fetch_chunk, lines 440-469: a page was obtained; its results.
OnSoup(r) ==
    LET page_num == r.idx
        start_offset == ((r.start_index - 1) \div results_per_page) * results_per_page
        offset == start_offset + (page_num * results_per_page)
        results == PageAt(offset)
        parsed == ParseResults(results, 1, r.papers, r.current_number, r.chunk_size)
    IN IF results = <<>>
       THEN [r EXCEPT !.pc = "b_done",
                      !.fetched = r.fetched + 1,
                      !.reached_end = TRUE]
       ELSE [r EXCEPT !.idx = page_num + 1,
                      !.fetched = r.fetched + 1,
                      !.papers = parsed.papers,
                      !.current_number = parsed.current_number,
                      !.sleeps = IF Len(parsed.papers) < r.chunk_size
                                 THEN r.sleeps \cup {page_num}
                                 ELSE r.sleeps]

(***************************************************************************)
(* bs4 fetch_chunk, lines 412-471: one iteration of the page loop, at page *)
(* run[p].idx.  fetch_page_with_selenium returns no page when the CAPTCHA  *)
(* wait times out or the browser raises.                                   *)
(***************************************************************************)
B_FetchPage(p) ==
    /\ variant = "bs4"
    /\ run[p].pc = "b_loop"
    /\ IF LoopOver(run[p])
       THEN run' = [run EXCEPT ![p].pc = "b_done"]
       ELSE \E failed \in BOOLEAN :
              IF failed
              THEN run' = [run EXCEPT ![p] = OnNoPage(run[p])]
              ELSE run' = [run EXCEPT ![p] = OnSoup(run[p])]
    /\ UNCHANGED <<config, stream, disk, rotated, runs, interrupted>>

(***************************************************************************)
(* The same iteration with the CAPTCHA wait spelled out.                   *)
(* fetch_page_with_selenium, lines 164-188: the browser raises, or the     *)
(* page is flagged by check_for_captcha, or it is parsed.                  *)
(* wait_for_captcha_solve, lines 136-161: elapsed is time.time() -         *)
(* start_time, in seconds; each round sleeps poll_interval seconds, takes  *)
(* some time more, and asks check_for_captcha again.                       *)
(***************************************************************************)
max_wait == 300
poll_interval == 2

B_GetPage(p) ==
    /\ variant = "bs4"
    /\ run[p].pc = "b_loop"
    /\ IF LoopOver(run[p])
       THEN run' = [run EXCEPT ![p].pc = "b_done"]
       ELSE \E raised \in BOOLEAN, flagged \in BOOLEAN :
              IF raised
              THEN run' = [run EXCEPT ![p] = OnNoPage(run[p])]
              ELSE IF flagged
              THEN run' = [run EXCEPT ![p].pc = "b_captcha",
                                      ![p].captcha = TRUE,
                                      ![p].elapsed = 0]
              ELSE run' = [run EXCEPT ![p] = OnSoup(run[p])]
    /\ UNCHANGED <<config, stream, disk, rotated, runs, interrupted>>

\* Lines 152-154 and 183-184: the flag is cleared; the page is parsed.
OnSolved(r) == OnSoup([r EXCEPT !.pc = "b_loop", !.captcha = FALSE, !.elapsed = 0])

\* OnTimeout going on with the page as if the CAPTCHA had been solved.
OnTimeout_Parses(r) == OnSoup([r EXCEPT !.pc = "b_loop", !.elapsed = 0])

\* Lines 160-161 and 179-180: the wait is over; no page.
OnTimeout(r) == OnNoPage([r EXCEPT !.elapsed = 0])

B_Poll(p) ==
    /\ variant = "bs4"
    /\ run[p].pc = "b_captcha"
    /\ run[p].elapsed < max_wait
    /\ \E took \in {0, 1}, flagged \in BOOLEAN :
          IF flagged
          THEN run' = [run EXCEPT ![p].elapsed = @ + poll_interval + took]
          ELSE run' = [run EXCEPT ![p] = OnSolved(run[p])]
    /\ UNCHANGED <<config, stream, disk, rotated, runs, interrupted>>

B_WaitTimeout(p) ==
    /\ variant = "bs4"
    /\ run[p].pc = "b_captcha"
    /\ ~(run[p].elapsed < max_wait)
    /\ run' = [run EXCEPT ![p] = OnTimeout(run[p])]
    /\ UNCHANGED <<config, stream, disk, rotated, runs, interrupted>>

(***************************************************************************)
(* bs4 main, lines 525-527: a run that collected nothing writes nothing.   *)
(***************************************************************************)
B_CheckNew(p) ==
    /\ variant = "bs4"
    /\ run[p].pc = "b_done"
    /\ IF run[p].papers = <<>>
       THEN run' = [run EXCEPT ![p] = Exit(run[p], "no_papers")]
       ELSE run' = [run EXCEPT ![p].pc = "merge"]
    /\ UNCHANGED <<config, stream, disk, rotated, runs, interrupted>>

V1Step(p) ==
    \/ StartRun(p)
    \/ LoadCheckpoint(p)
    \/ CheckCompat(p)
    \/ Resume(p)
    \/ OpenStream(p)
    \/ FetchNext(p)

WriteStep(p) ==
    \/ SaveJson(p)
    \/ AppendCsv(p)
    \/ GenerateReport(p)
    \/ SaveCheckpoint(p)

Bs4Step(p) ==
    \/ B_StartRun(p)
    \/ B_Load(p)
    \/ B_FetchPage(p)
    \/ B_CheckNew(p)

Next ==
    \/ V1Step(1)
    \/ Bs4Step(1)
    \/ WriteStep(1)
    \/ Crash(1)
    \/ EditKeywords

Spec == Init /\ [][Next]_vars

(***************************************************************************)
(* fetch_chunk on its own: called with any start index, any end index (v1) *)
(* or chunk size (bs4), any stream and either pacing, on an untouched      *)
(* directory.  pc = "merge" (v1) and pc = "b_done" (bs4) are its return.   *)
(***************************************************************************)
EmptyDirectory ==
    /\ ckptFile = AbsentCheckpoint
    /\ jsonFile = AbsentFile
    /\ csvFile = AbsentFile
    /\ reportFile = AbsentFile
    /\ rotated = {}
    /\ runs = 0
    /\ interrupted = FALSE

FetchStarts == 1..(MaxStream + 2)
FetchEnds == 0..(MaxStream + 2)

InitFetch ==
    /\ variant \in {"v1", "bs4"}
    /\ \E c \in KeywordConfigs :
          ITA_KEYWORDS = c.ita /\ ASSESSMENT_KEYWORDS = c.assessment
    /\ stream \in Streams
    /\ EmptyDirectory
    /\ \E start_index \in FetchStarts, max_delay \in {0, 1} :
          LET called == [IdleRun EXCEPT
                            !.args = [NoArgs EXCEPT !.max_delay = max_delay],
                            !.query = build_query(ITA_KEYWORDS, ASSESSMENT_KEYWORDS),
                            !.start_index = start_index]
          IN IF variant = "v1"
             THEN \E end_index \in FetchEnds :
                     run = [p \in Procs |->
                              IF p = 1
                              THEN [called EXCEPT !.pc = "open", !.end_index = end_index]
                              ELSE IdleRun]
             ELSE \E chunk_size \in 0..(MaxChunk + 1) :
                     run = [p \in Procs |->
                              IF p = 1
                              THEN EnterFetchChunk(called, start_index, chunk_size)
                              ELSE IdleRun]

NextFetch ==
    \/ OpenStream(1)
    \/ FetchNext(1)
    \/ B_FetchPage(1)

SpecFetch == InitFetch /\ [][NextFetch]_vars

(***************************************************************************)
(* is_checkpoint_compatible on its own: any checkpoint (none, or a dict    *)
(* with any of the three compared keys missing or holding any value), any  *)
(* query and any pair of active keyword lists.                             *)
(***************************************************************************)
ItaLists == {ItaA, ItaB}
AssessLists == {AssessA, AssessB}
Queries == {build_query(i, a) : i \in ItaLists, a \in AssessLists}

CheckpointDicts ==
    {[keys |-> ks \cup {"next_index", "completed"},
      query |-> IF "query" \in ks THEN q ELSE <<>>,
      ita_keywords |-> IF "ita_keywords" \in ks THEN i ELSE <<>>,
      assessment_keywords |-> IF "assessment_keywords" \in ks THEN a ELSE <<>>,
      next_index |-> 1,
      completed |-> FALSE] :
        ks \in SUBSET {"query", "ita_keywords", "assessment_keywords"},
        q \in Queries, i \in ItaLists, a \in AssessLists}

InitCompat ==
    /\ variant = "v1"
    /\ ITA_KEYWORDS \in ItaLists
    /\ ASSESSMENT_KEYWORDS \in AssessLists
    /\ stream = <<>>
    /\ EmptyDirectory
    /\ \E query \in Queries, chunk_size \in 1..MaxChunk, max_results \in 1..MaxResults,
          got \in {[loaded |-> FALSE, checkpoint |-> EmptyDict]}
                  \cup {[loaded |-> TRUE, checkpoint |-> d] : d \in CheckpointDicts} :
          run = [p \in Procs |->
                   IF p = 1
                   THEN [IdleRun EXCEPT
                           !.pc = "compat",
                           !.args = [NoArgs EXCEPT !.chunk_size = chunk_size,
                                                   !.max_results = max_results,
                                                   !.max_delay = 1],
                           !.query = query,
                           !.loaded = got.loaded,
                           !.checkpoint = got.checkpoint]
                   ELSE IdleRun]

NextCompat == CheckCompat(1)

SpecCompat == InitCompat /\ [][NextCompat]_vars

(***************************************************************************)
(* main from its call of fetch_chunk to its end (v1 lines 459-492), for    *)
(* any start index a checkpoint can hold, any range main can compute from  *)
(* it and any stream, the stream of an earlier run having been longer or   *)
(* shorter.                                                                *)
(***************************************************************************)
InitTail ==
    /\ variant = "v1"
    /\ \E c \in KeywordConfigs :
          ITA_KEYWORDS = c.ita /\ ASSESSMENT_KEYWORDS = c.assessment
    /\ stream \in Streams
    /\ EmptyDirectory
    /\ \E start_index \in FetchStarts, chunk_size \in 1..MaxChunk, spare \in {0, 1},
          max_delay \in {0, 1} :
          LET end_index == start_index + chunk_size - 1 IN
          run = [p \in Procs |->
                   IF p = 1
                   THEN [IdleRun EXCEPT
                           !.pc = "open",
                           !.args = [NoArgs EXCEPT !.chunk_size = chunk_size + spare,
                                                   !.max_results = end_index + spare,
                                                   !.max_delay = max_delay],
                           !.query = build_query(ITA_KEYWORDS, ASSESSMENT_KEYWORDS),
                           !.resume = start_index > 1,
                           !.start_index = start_index,
                           !.chunk_size = chunk_size,
                           !.end_index = end_index]
                   ELSE IdleRun]

NextTail ==
    \/ OpenStream(1)
    \/ FetchNext(1)
    \/ WriteStep(1)

SpecTail == InitTail /\ [][NextTail]_vars

(***************************************************************************)
(* A killed run and the run after it.  Process 1 runs the script as in     *)
(* Spec; once one of its runs has been killed after save_json_results      *)
(* returned, the user starts the script again (process 2), with any        *)
(* command line main accepts, and that run goes on to its end.             *)
(***************************************************************************)
KilledAfterJson(r) == r.exit \in {"crash", "torn"} /\ <<"saved", "json">> \in r.log

NextRun(p) ==
    /\ ~Begun(run[p])
    /\ Idle(1)
    /\ KilledAfterJson(run[1])
    /\ (Begin(p) \/ B_Begin(p))
    /\ ValidArgs([chunk_size |-> run'[p].args.chunk_size,
                  max_results |-> run'[p].args.max_results,
                  delay |-> <<run'[p].args.min_delay, run'[p].args.max_delay>>])

NextRecover ==
    \/ ~Begun(run[2]) /\ (V1Step(1) \/ Bs4Step(1) \/ WriteStep(1) \/ Crash(1))
    \/ NextRun(2)
    \/ Begun(run[2]) /\ (V1Step(2) \/ Bs4Step(2) \/ WriteStep(2))

SpecRecover == Init /\ [][NextRecover]_vars

(***************************************************************************)
(* bs4 fetch_chunk on its own with the CAPTCHA wait spelled out, over      *)
(* streams of no, one, two and three pages and chunks of one to three      *)
(* pages.  The loops of the script keep running: weak fairness.            *)
(***************************************************************************)
CaptchaStreams ==
    {[i \in 1..n |-> IF i % 4 = 0 THEN 3 ELSE 1] :
        n \in {0, MaxStream, results_per_page + MaxStream,
               2 * results_per_page + MaxStream}}

InitCaptcha ==
    /\ variant = "bs4"
    /\ ITA_KEYWORDS = ItaA
    /\ ASSESSMENT_KEYWORDS = AssessA
    /\ stream \in CaptchaStreams
    /\ EmptyDirectory
    /\ \E start_index \in {1, MaxChunk, results_per_page + 1},
          chunk_size \in {MaxChunk, results_per_page, 2 * results_per_page} :
          run = [p \in Procs |->
                   IF p = 1
                   THEN EnterFetchChunk(
                            [IdleRun EXCEPT
                                !.args = [NoArgs EXCEPT !.max_delay = 1],
                                !.query = build_query(ITA_KEYWORDS, ASSESSMENT_KEYWORDS),
                                !.start_index = start_index],
                            start_index, chunk_size)
                   ELSE IdleRun]

NextCaptcha ==
    \/ B_GetPage(1)
    \/ B_Poll(1)
    \/ B_WaitTimeout(1)

SpecCaptcha ==
    /\ InitCaptcha
    /\ [][NextCaptcha]_vars
    /\ WF_vars(B_GetPage(1))
    /\ WF_vars(B_Poll(1))
    /\ WF_vars(B_WaitTimeout(1))

(***************************************************************************)
(* The merge of main on its own (v1 lines 467-472, bs4 lines 530-535):     *)
(* any previous papers and any new papers, each list with one paper per    *)
(* number, in any order, the same number standing for different records.   *)
(***************************************************************************)
MergePapers == {Paper(n, k, n) : n \in 1..MaxResults, k \in {1, 2}}

MergeLists ==
    {l \in SeqsUpTo(MergePapers, MaxChunk) :
        \A i, j \in 1..Len(l) : i # j => l[i].number # l[j].number}

InitMerge ==
    /\ variant \in {"v1", "bs4"}
    /\ ITA_KEYWORDS = ItaA
    /\ ASSESSMENT_KEYWORDS = AssessA
    /\ stream = <<>>
    /\ EmptyDirectory
    /\ \E existing_papers \in MergeLists, new_papers \in MergeLists :
          run = [p \in Procs |->
                   IF p = 1
                   THEN [IdleRun EXCEPT
                           !.pc = "merge",
                           !.query = build_query(ITA_KEYWORDS, ASSESSMENT_KEYWORDS),
                           !.existing_papers = existing_papers,
                           !.papers = new_papers]
                   ELSE IdleRun]

NextMerge == SaveJson(1)

SpecMerge == InitMerge /\ [][NextMerge]_vars

(***************************************************************************)
(* _matches_keywords on its own (v1 lines 91-109), called as at line 360   *)
(* with a text and the ITA list: every text and every keyword of up to     *)
(* MaxChunk characters over a small alphabet, the empty text, the empty    *)
(* keyword and "*" among them, and every list of up to MaxChunk keywords.  *)
(***************************************************************************)
MatchChars == {"a", "A", "b", "*"}
MatchTexts == SeqsUpTo(MatchChars, MaxChunk)
MatchKeywordLists == SeqsUpTo(MatchTexts, MaxChunk)

InitMatch ==
    /\ variant = "v1"
    /\ ITA_KEYWORDS \in MatchKeywordLists
    /\ ASSESSMENT_KEYWORDS = AssessA
    /\ stream = <<>>
    /\ EmptyDirectory
    /\ \E text \in MatchTexts :
          run = [p \in Procs |->
                   IF p = 1
                   THEN [IdleRun EXCEPT !.pc = "match", !.text = text]
                   ELSE IdleRun]

MatchText(p) ==
    /\ run[p].pc = "match"
    /\ run' = [run EXCEPT ![p].pc = "matched",
                          ![p].matched = _matches_keywords(run[p].text, ITA_KEYWORDS)]
    /\ UNCHANGED <<config, stream, disk, rotated, runs, interrupted>>

NextMatch == MatchText(1)

SpecMatch == InitMatch /\ [][NextMatch]_vars

(***************************************************************************)
(* Two invocations of the v1 script on the same files.  Nothing in the     *)
(* script locks a file, so the steps of two processes interleave freely;   *)
(* an invocation may also begin after the other has ended.  overlap tells  *)
(* of a run that another invocation was in progress when it began.         *)
(***************************************************************************)
InitConcurrent ==
    /\ variant = "v1"
    /\ ITA_KEYWORDS = ItaA
    /\ ASSESSMENT_KEYWORDS = AssessA
    /\ stream \in Streams
    /\ EmptyDirectory
    /\ run = [p \in Procs |-> IdleRun]

NextConcurrent == \E p \in Procs : V1Step(p) \/ WriteStep(p)

SpecConcurrent == InitConcurrent /\ [][NextConcurrent]_vars

(***************************************************************************)
(* The same command line again and again: up to MaxRepeats invocations of  *)
(* main, each running to its end, every one with the arguments of the      *)
(* first, the keyword lists and the stream unchanged.                      *)
(***************************************************************************)
SameCommand(p) == runs = 0 \/ run'[p].args = run[p].args

Repeat(p) ==
    /\ runs < MaxRepeats
    /\ Begin(p) \/ B_Begin(p)
    /\ SameCommand(p)

NextRepeat ==
    \/ Repeat(1)
    \/ LoadCheckpoint(1)
    \/ CheckCompat(1)
    \/ Resume(1)
    \/ OpenStream(1)
    \/ FetchNext(1)
    \/ WriteStep(1)
    \/ B_Load(1)
    \/ B_FetchPage(1)
    \/ B_CheckNew(1)

SpecRepeat == Init /\ [][NextRepeat]_vars

(***************************************************************************)
(* Properties.                                                             *)
(***************************************************************************)
\* fetch_chunk of v1 has returned from a call with start_index <= end_index.
ReturnedV1 ==
    /\ variant = "v1"
    /\ run[1].pc = "merge"
    /\ run[1].start_index <= run[1].end_index

\* The checkpoint dict d stores exactly this query and these keyword lists.
StoresConfig(d, query, ita, assessment) ==
    /\ {"query", "ita_keywords", "assessment_keywords"} \subseteq d.keys
    /\ d.query = query
    /\ d.ita_keywords = ita
    /\ d.assessment_keywords = assessment

\* The checkpoint on disk is readable and stores the active configuration.
CompatibleOnDisk ==
    /\ ckptFile.state = "ok"
    /\ StoresConfig(ckptFile.data, build_query(ITA_KEYWORDS, ASSESSMENT_KEYWORDS),
                    ITA_KEYWORDS, ASSESSMENT_KEYWORDS)

\* What the run of process 1 has written (not removed, not renamed).
Saved(r) == {e \in r.log : e[1] = "saved"}

\* C1 (as claimed): for S <= E, fetch_chunk returns at most E - S + 1 papers
\* and a last_index with S - 1 <= last_index <= E.
C1_Original ==
    ReturnedV1 =>
        /\ Len(run[1].papers) <= run[1].end_index - run[1].start_index + 1
        /\ run[1].start_index - 1 <= run[1].last_index
        /\ run[1].last_index <= run[1].end_index

\* C1 (amended): for S <= E, fetch_chunk returns at most E - S + 1 papers and
\* last_index <= E; last_index >= S - 1 unless the stream ended before position
\* S - 1, and then exhausted is true and last_index is the length of the stream.
C1_Amended ==
    ReturnedV1 =>
        /\ Len(run[1].papers) <= run[1].end_index - run[1].start_index + 1
        /\ run[1].last_index <= run[1].end_index
        /\ \/ run[1].start_index - 1 <= run[1].last_index
           \/ /\ run[1].reached_end
              /\ run[1].last_index = Len(stream)
              /\ Len(stream) < run[1].start_index - 1

\* A call whose stream ends before the range begins has returned.
C1_Witness ==
    /\ ReturnedV1
    /\ run[1].reached_end
    /\ run[1].last_index < run[1].start_index - 1

\* C2 (as claimed): a fresh run with chunk_size = 2 and max_results = 2 over
\* three raw records of which the first and the third match both keyword
\* groups stores exactly the papers 1 and 3 and saves next_index = 4.
C2_Claim ==
    (/\ variant = "v1"
     /\ runs = 1
     /\ ITA_KEYWORDS = ItaA
     /\ ASSESSMENT_KEYWORDS = AssessA
     /\ stream = <<1, 3, 1>>
     /\ run[1].exit = "ok"
     /\ run[1].args.chunk_size = 2
     /\ run[1].args.max_results = 2)
    => /\ jsonFile.state = "ok"
       /\ Len(jsonFile.data) = 2
       /\ Numbers(jsonFile.data) = {1, 3}
       /\ ckptFile.state = "ok"
       /\ ckptFile.data.next_index = 4

\* C3 (as claimed): for S <= E the returned last_index is the index of the last
\* raw record consumed; it is E whenever the stream holds at least E records,
\* and it is below E only when exhausted is returned true.
C3_Claim ==
    ReturnedV1 =>
        /\ run[1].last_index = run[1].fetched
        /\ (Len(stream) >= run[1].end_index => run[1].last_index = run[1].end_index)
        /\ (run[1].last_index < run[1].end_index => run[1].reached_end)

\* The run of process 1, begun without --reset, found on disk the checkpoint
\* that is there now, and the configuration is the one it began with.
FoundThisCheckpoint(r) ==
    /\ r.pc # "idle" \/ r.exit \notin {"none", "bad_args"}
    /\ ~r.args.reset
    /\ <<"saved", "checkpoint">> \notin r.log
    /\ r.query = build_query(ITA_KEYWORDS, ASSESSMENT_KEYWORDS)

\* C4: a run without --reset that finds a compatible checkpoint whose
\* next_index is greater than max_results ends at once: it opens no stream,
\* fetches nothing and removes, renames and writes no file.
C4_EndsImmediately ==
    LET r == run[1] IN
    (/\ FoundThisCheckpoint(r)
     /\ CompatibleOnDisk
     /\ ckptFile.data.next_index > r.args.max_results)
    => /\ r.log = {}
       /\ ~r.opened
       /\ r.fetched = 0
       /\ r.pc \in {"load", "compat", "resume", "b_load", "idle"}
       /\ (r.pc = "idle" => r.exit \in {"limit_reached", "crash"})

\* Such a run has ended on the limit.
C4_Witness ==
    /\ FoundThisCheckpoint(run[1])
    /\ CompatibleOnDisk
    /\ ckptFile.data.next_index > run[1].args.max_results
    /\ run[1].exit = "limit_reached"
    /\ jsonFile.state = "ok"

C6_CompatibleIffEqual ==
    [][(run[1].pc = "compat" /\ run'[1].pc = "resume")
          => (run'[1].resume <=>
                 (/\ run[1].loaded
                  /\ StoresConfig(run[1].checkpoint, run[1].query,
                                  ITA_KEYWORDS, ASSESSMENT_KEYWORDS)))]_vars

\* The function has returned true for a loaded checkpoint.
C6_Witness ==
    /\ run[1].pc = "resume"
    /\ run[1].resume
    /\ run[1].loaded
    /\ run[1].args.chunk_size # run[1].args.max_results

\* C7 (as claimed): when a v1 run without --reset starts over, then before it
\* writes anything the earlier JSON, CSV and report are no longer at their
\* paths (they were renamed) and the stale checkpoint is gone.
C7_Claim ==
    LET r == run[1] IN
    (/\ variant = "v1"
     /\ r.pc \in {"resume", "open", "loop", "merge"}
     /\ ~r.args.reset
     /\ ~r.resume)
    => ExistingPaths = {}

DataRows(file) == {i \in 1..Len(file.data) : file.data[i] # HeaderRow}

NoDuplicateRows ==
    \A i, j \in DataRows(csvFile) :
        i # j => csvFile.data[i].number # csvFile.data[j].number

StrictlyIncreasing(papers) ==
    \A i \in 1..(Len(papers) - 1) : papers[i].number < papers[i + 1].number

RankNumbered(papers) == \A i \in 1..Len(papers) : papers[i].number = papers[i].rank

\* C9 (as claimed): in every variant each paper's number is the 1-based rank of
\* its raw record in the result ordering, and the numbers of the papers of one
\* fetch_chunk call are strictly increasing.
C9_Claim ==
    /\ RankNumbered(run[1].papers)
    /\ StrictlyIncreasing(run[1].papers)
    /\ RankNumbered(read_json_results(jsonFile))

\* The start index the next v1 run without --reset computes from the disk.
NextStartIndex ==
    IF CompatibleOnDisk THEN Max(1, ckptFile.data.next_index) ELSE 1

\* C10: when the upstream client raises MaxTriesExceededException, at the
\* opening of the stream or at any position, the run ends there: no retry, none
\* of the four files written, and the next run starts from the same index.
C10_RateLimitAborts ==
    [][(run'[1].signal = "MaxTriesExceeded" /\ run[1].signal # "MaxTriesExceeded")
          => /\ run[1].pc \in {"open", "loop"}
             /\ run'[1].pc = "idle"
             /\ run'[1].exit = "rate_limit"
             /\ run'[1].fetched = run[1].fetched
             /\ disk' = disk
             /\ Saved(run'[1]) = {}
             /\ NextStartIndex' = run[1].start_index]_vars

\* A run was rate-limited after it had accepted a paper.
C10_Witness ==
    /\ run[1].exit = "rate_limit"
    /\ run[1].signal = "MaxTriesExceeded"
    /\ run[1].papers # <<>>
    /\ run[1].start_index > 1

\* C11: when the stream is exhausted at the position idx that fetch_chunk asks
\* for (below the start index or inside the range), the call returns at once
\* with exhausted = true and last_index = idx - 1, and the checkpoint the run
\* then saves has completed = true.
C11_ExhaustionStops ==
    [][/\ (/\ run[1].pc = "loop"
           /\ run[1].idx > Len(stream)
           /\ run'[1] # run[1]
           /\ run'[1].exit = "none")
          => /\ run[1].idx <= run[1].end_index
             /\ run'[1].pc = "merge"
             /\ run'[1].reached_end
             /\ run'[1].last_index = run[1].idx - 1
             /\ run'[1].fetched = run[1].fetched
             /\ run'[1].papers = run[1].papers
       /\ (/\ run[1].pc = "checkpoint"
           /\ run[1].signal = "StopIteration"
           /\ run'[1].exit = "ok")
          => /\ ckptFile'.state = "ok"
             /\ ckptFile'.data.completed]_vars

\* A run whose stream ended below its start index has saved its checkpoint.
C11_Witness ==
    /\ run[1].exit = "ok"
    /\ run[1].signal = "StopIteration"
    /\ Len(stream) < run[1].start_index - 1
    /\ ckptFile.state = "ok"
    /\ ckptFile.data.completed
    /\ ckptFile.data.next_index <= run[1].args.max_results

\* The four tests of main's argument validation, on the stored arguments.
InvalidNumbers(args) ==
    \/ args.chunk_size <= 0
    \/ args.max_results <= 0
    \/ args.min_delay < 0
    \/ args.max_delay < 0
    \/ args.min_delay > args.max_delay

\* C12 (as claimed): in every variant a run given a non-positive chunk size, a
\* non-positive max-results, a negative delay or min-delay above max-delay
\* has aborted: it removes, renames and writes no file and fetches nothing.
C12_Claim ==
    LET r == run[1] IN
    (Begun(r) /\ (r.exit = "bad_args" \/ InvalidNumbers(r.args)))
    => /\ r.log = {}
       /\ r.fetched = 0

\* The snapshot the killed run of process 1 left: at scholar_results.json, or
\* under the name the next run has given it.
PreviousSnapshot ==
    IF <<"rotated", "json">> \in run[2].log
    THEN (CHOOSE e \in rotated : e.path = "json" /\ e.stamp = runs).file
    ELSE jsonFile

\* The next run is writing its snapshot: save_json_results returns.
NextRunSavesJson == run[2].pc = "merge" /\ run'[2].pc = "csv"

\* C13 (as claimed): when a run was killed after it wrote the JSON snapshot and
\* before it wrote the checkpoint, the next run over the same stream fetches
\* from the same start index and the snapshot it writes equals the one the
\* killed run wrote.  Stated for v1 and a next run without --reset, which
\* leaves the snapshot of the killed run in the directory.
C13_Original ==
    [][(/\ variant = "v1"
        /\ NextRunSavesJson
        /\ run[1].exit = "crash"
        /\ ~run[2].args.reset)
          => /\ run[2].start_index = run[1].start_index
             /\ jsonFile' = PreviousSnapshot]_vars

\* C13 (amended): the same, for a next run given the same chunk size and
\* max-results as the killed run, no --reset, and unchanged keyword lists.
C13_Amended ==
    [][(/\ NextRunSavesJson
        /\ run[1].exit = "crash"
        /\ run[2].args.chunk_size = run[1].args.chunk_size
        /\ run[2].args.max_results = run[1].args.max_results
        /\ ~run[2].args.reset
        /\ run[2].query = run[1].query)
          => /\ run[2].start_index = run[1].start_index
             /\ jsonFile' = PreviousSnapshot]_vars

\* The next run of a killed run that had resumed has written the snapshot again.
C13_Witness ==
    /\ run[1].exit = "crash"
    /\ run[1].resume
    /\ run[1].start_index > 1
    /\ run[1].papers # <<>>
    /\ run[2].exit = "ok"
    /\ run[2].args.chunk_size = run[1].args.chunk_size
    /\ run[2].args.max_results = run[1].args.max_results
    /\ ~run[2].args.reset
    /\ run[2].query = run[1].query
    /\ run[2].papers = run[1].papers
    /\ Len(jsonFile.data) > Len(run[2].papers)

\* C14: in the browser variant a CAPTCHA wait polls every poll_interval
\* seconds and always ends: a poll that finds the flag cleared ends it with
\* the page, and once max_wait seconds have elapsed it ends without a page;
\* fetch_chunk then returns reached_end = true with the papers collected so
\* far and fetches no further page.
C14_CaptchaWaitEnds ==
    /\ [][(run[1].pc = "b_captcha" /\ run'[1] # run[1])
             => IF ~(run[1].elapsed < max_wait)
                THEN /\ run'[1].pc = "b_done"
                     /\ run'[1].reached_end
                     /\ run'[1].papers = run[1].papers
                     /\ run'[1].fetched = run[1].fetched
                ELSE IF run'[1].captcha
                THEN /\ run'[1].pc = "b_captcha"
                     /\ run'[1].elapsed >= run[1].elapsed + poll_interval
                     /\ run'[1].fetched = run[1].fetched
                ELSE /\ run'[1].pc \in {"b_loop", "b_done"}
                     /\ run'[1].fetched = run[1].fetched + 1]_vars
    /\ (run[1].pc = "b_captcha") ~> (run[1].pc # "b_captcha")
    /\ [][run[1].pc = "b_done" => run'[1] = run[1]]_vars

\* A wait on the second page has timed out; the papers of the first page
\* are returned.
C14_Witness ==
    /\ run[1].pc = "b_done"
    /\ run[1].captcha
    /\ run[1].reached_end
    /\ run[1].fetched = 1
    /\ run[1].papers # <<>>
    /\ Len(stream) > 2 * results_per_page
    /\ run[1].chunk_size = 2 * results_per_page

\* The papers of a list, as a set.
Range(papers) == {papers[i] : i \in 1..Len(papers)}

\* C15: the merged set holds exactly one record for each number of either
\* input, the new record where both inputs hold the number and the old one
\* otherwise, in ascending order of number; a set merged with itself is
\* the same set.
C15_RightBiasedOverlay ==
    [][(run[1].pc = "merge" /\ run'[1].pc = "csv")
          => LET old == run[1].existing_papers
                 new == run[1].papers
                 out == jsonFile'.data
             IN /\ jsonFile'.state = "ok"
                /\ Numbers(out) = Numbers(old) \cup Numbers(new)
                /\ Len(out) = Cardinality(Numbers(out))
                /\ \A i \in 1..Len(out) :
                      IF out[i].number \in Numbers(new)
                      THEN out[i] \in Range(new)
                      ELSE out[i] \in Range(old)
                /\ StrictlyIncreasing(out)
                /\ (Range(old) = Range(new) => Range(out) = Range(old))]_vars

\* Two lists that hold different records under one number have been merged.
C15_Witness ==
    /\ run[1].pc = "csv"
    /\ jsonFile.state = "ok"
    /\ \E i \in 1..Len(run[1].existing_papers), j \in 1..Len(run[1].papers) :
          /\ run[1].existing_papers[i].number = run[1].papers[j].number
          /\ run[1].existing_papers[i] # run[1].papers[j]
    /\ Numbers(run[1].existing_papers) # Numbers(run[1].papers)

\* C16 (as claimed): in v1 fetch_chunk with max_delay > 0 a pacing sleep follows
\* the fetch at every position idx with S <= idx < E that the loop has gone
\* past, whether the record was accepted or rejected; no sleep follows a fetch
\* at E or below S; with max_delay <= 0 there is no sleep at all.  Stated for
\* the positions idx whose successor the stream holds.
C16_Claim ==
    LET r == run[1] IN
    (variant = "v1" /\ r.opened /\ r.pc \in {"loop", "merge"})
    => /\ r.sleeps \subseteq r.start_index..(r.end_index - 1)
       /\ (r.args.max_delay <= 0 => r.sleeps = {})
       /\ (r.args.max_delay > 0
              => \A idx \in r.start_index..(r.end_index - 1) :
                    (idx < r.idx /\ idx + 1 <= Len(stream)) => idx \in r.sleeps)

\* The keyword kw occurs in the text, case-insensitively; for a keyword ending
\* in '*', its prefix does.
Occurs(kw, text) ==
    LET wanted == IF EndsWithStar(kw) THEN SubSeq(kw, 1, Len(kw) - 1) ELSE kw
    IN \E i \in 0..(Len(text) - Len(wanted)) :
          \A j \in 1..Len(wanted) : Lower(text[i + j]) = Lower(wanted[j])

SomeKeywordOccurs(text, keywords) ==
    \E i \in 1..Len(keywords) : Occurs(keywords[i], text)

\* C17 (as claimed): for every text and keyword list, the empty text, the
\* empty keyword and "*" included, _matches_keywords is true exactly when some
\* keyword (its prefix, for a keyword ending in '*') occurs in the text.
C17_Original ==
    run[1].pc = "matched"
        => (run[1].matched <=> SomeKeywordOccurs(run[1].text, ITA_KEYWORDS))

\* C17 (amended): _matches_keywords is false for the empty text; for a
\* non-empty text it is true exactly when some keyword (its prefix, for a
\* keyword ending in '*') occurs in the text, case-insensitively.
C17_Amended ==
    run[1].pc = "matched"
        => (run[1].matched <=>
               (run[1].text # <<>> /\ SomeKeywordOccurs(run[1].text, ITA_KEYWORDS)))

\* A text in another case than the prefix of a wildcard keyword has matched,
\* after a keyword that does not occur.
C17_Witness ==
    /\ run[1].pc = "matched"
    /\ run[1].matched
    /\ run[1].text = <<"A", "b">>
    /\ ITA_KEYWORDS = << <<"b", "b">>, <<"a", "*">> >>

\* The run r is past the computation of its range.
RangeSet(r) == r.pc \in {"open", "loop", "b_loop", "b_captcha", "b_done",
                         "merge", "csv", "report", "checkpoint"}

\* The highest position of the result ordering whose raw record the run has
\* fetched: v1 asks for one record at a time, bs4 for pages.
HighestFetched(r) ==
    IF variant = "v1" THEN r.fetched
    ELSE IF r.idx = 0 THEN 0
    ELSE Min(Len(stream),
             ((r.start_index - 1) \div results_per_page) * results_per_page
                 + r.idx * results_per_page)

\* C18 (as claimed): in every run of every variant the range is bounded by
\* chunk_size and by max_results, no raw record beyond position max_results
\* is fetched, and no paper the run collects has a number above max_results.
C18_Original ==
    LET r == run[1] IN
    RangeSet(r)
    => /\ HighestFetched(r) <= r.args.max_results
       /\ \A n \in Numbers(r.papers) : n <= r.args.max_results

\* C18 (amended): in v1 the range S..E has E - S + 1 <= chunk_size and
\* E <= max_results and no raw record beyond E is fetched; in bs4 the run
\* collects at most min(chunk_size, max_results - S + 1) papers, fetching
\* whole pages.  In both no paper the run collects has a number above
\* max_results, and a snapshot whose numbers are within max_results stays so.
C18_Amended ==
    /\ [](LET r == run[1] IN
          RangeSet(r)
          => /\ variant = "v1"
                => /\ r.end_index - r.start_index + 1 <= r.args.chunk_size
                   /\ r.end_index <= r.args.max_results
                   /\ r.fetched <= r.end_index
             /\ variant = "bs4"
                => /\ r.chunk_size <= r.args.chunk_size
                   /\ r.start_index + r.chunk_size - 1 <= r.args.max_results
                   /\ Len(r.papers) <= r.chunk_size
             /\ \A n \in Numbers(r.papers) : n <= r.args.max_results)
    /\ [][(run[1].pc = "merge" /\ run'[1].pc = "csv"
           /\ \A n \in Numbers(run[1].existing_papers) : n <= run[1].args.max_results)
             => \A n \in Numbers(jsonFile'.data) : n <= run[1].args.max_results]_vars

\* A resumed v1 run whose chunk was cut by max_results has fetched up to it.
C18_Witness ==
    /\ variant = "v1"
    /\ run[1].pc = "merge"
    /\ run[1].start_index > 1
    /\ run[1].end_index < run[1].start_index + run[1].args.chunk_size - 1
    /\ run[1].fetched = run[1].args.max_results
    /\ run[1].papers # <<>>

\* All invocations have ended, and a paper that one of them accepted is
\* missing from the snapshot although the checkpoint resumes beyond its number.
LostPaper ==
    /\ \A p \in Procs : Idle(p)
    /\ ckptFile.state = "ok"
    /\ jsonFile.state = "ok"
    /\ \E p \in Procs :
          /\ run[p].exit = "ok"
          /\ \E i \in 1..Len(run[p].papers) :
                /\ run[p].papers[i].number < ckptFile.data.next_index
                /\ run[p].papers[i].number \notin Numbers(jsonFile.data)

\* C19: a state in which the final checkpoint's next_index is beyond the
\* number of an accepted paper that the final snapshot lacks is reached only
\* by invocations that overlapped, never by invocations one after another.
C19_LostOnlyWhenConcurrent ==
    LostPaper => \E p \in Procs : run[p].overlap

\* Two overlapping invocations have ended with a paper lost.
C19_Witness ==
    /\ LostPaper
    /\ run[1].exit = "ok"
    /\ run[2].exit = "ok"
    /\ ~run[1].args.reset
    /\ ~run[2].args.reset

\* C20 (as claimed): a v1 run whose stream was not exhausted saves a next_index
\* strictly greater than its start index, also when every record of its range
\* was rejected by the keyword filter.
C20_Claim ==
    [][(/\ variant = "v1"
        /\ run[1].pc = "checkpoint"
        /\ ~run[1].reached_end
        /\ run'[1].exit = "ok")
       => ckptFile'.data.next_index > run[1].start_index]_vars

\* C21 (as claimed): once a run has saved a checkpoint with completed = true,
\* a later v1 run with the same arguments and keyword lists and without
\* --reset opens no result stream and fetches nothing, also when the
\* checkpoint's next_index is not beyond max_results.
C21_Claim ==
    LET r == run[1] IN
    (/\ variant = "v1"
     /\ runs >= 2
     /\ FoundThisCheckpoint(r)
     /\ CompatibleOnDisk
     /\ ckptFile.data.completed)
    => /\ ~r.opened
       /\ r.fetched = 0

\* The step in which the run of process 1 saves its checkpoint.
SavesCheckpoint == run[1].pc = "checkpoint" /\ run'[1].exit = "ok"

\* C22: a saved checkpoint's next_index is always >= 1; every run that saves a
\* checkpoint saves a next_index >= its start index and <= its max_results + 1,
\* and a run that resumed from a compatible checkpoint saves a next_index that
\* is not below the one it resumed from.
C22_NextIndexMonotone ==
    /\ [](ckptFile.state = "ok" => ckptFile.data.next_index >= 1)
    /\ [][SavesCheckpoint =>
            /\ ckptFile'.data.next_index >= run[1].start_index
            /\ ckptFile'.data.next_index <= run[1].args.max_results + 1
            /\ (run[1].resume /\ ckptFile.state = "ok"
                  => ckptFile'.data.next_index >= ckptFile.data.next_index)]_vars

\* A resumed run has saved a next_index above the one it resumed from, at the
\* upper limit.
C22_Witness ==
    /\ run[1].exit = "ok"
    /\ run[1].resume
    /\ run[1].start_index >= 2
    /\ <<"saved", "checkpoint">> \in run[1].log
    /\ ckptFile.state = "ok"
    /\ ckptFile.data.next_index > run[1].start_index
    /\ ckptFile.data.next_index = run[1].args.max_results + 1
====
